---- MODULE Spec2Model ----
(***************************************************************************)
(* The lexer of rlox (compiler/src/lexer.rs) as a state machine.           *)
(*                                                                         *)
(* A source text is a sequence of characters; a character is a string of   *)
(* one letter, except EAcute which stands for a character whose UTF-8      *)
(* encoding takes two bytes.  The lexer keeps its cursor as a count of     *)
(* characters (chars().nth(current)) but tests end of input and slices the *)
(* text by bytes (source.len(), source.get(a..b)); both are modelled.      *)
(*                                                                         *)
(* The methods of Lexer are operators from a record `self` (the fields of  *)
(* struct Lexer plus `status`, which records a panic of the running call)  *)
(* to the record after the call.  One action, ScanToken, is one iteration  *)
(* of the main loop of scan_tokens; Return is what scan_tokens does once   *)
(* the loop has ended.  Report and RunFile are what Lox::run and           *)
(* Lox::run_file (compiler/src/lox.rs) do with what scan_tokens returned.  *)
(***************************************************************************)
EXTENDS Integers, Sequences, FiniteSets, TLC

VARIABLES
    source,     \* Lexer.source
    tokens,     \* Lexer.tokens
    start,      \* Lexer.start
    current,    \* Lexer.current
    line,       \* Lexer.line
    errors,     \* local `errors` of scan_tokens
    had_error,  \* local `had_error` of scan_tokens
    pc,         \* "scan": in the main loop of scan_tokens; "returned";
                \* "panicked"; "diverged": in a loop that never ends
    result,     \* what scan_tokens returned: "none" before, then "Ok" or "Err"
    lox_had_error,  \* Lox.had_error
    reported,   \* how many of the returned errors Lox::run has passed to error
    exit_code   \* None while the process runs, Some(code) once it has exited

vars == <<source, tokens, start, current, line, errors, had_error, pc, result,
          lox_had_error, reported, exit_code>>

----------------------------------------------------------------------------
(* Characters *)

EAcute == "U+00E9"          \* a character of two UTF-8 bytes
NUL == "U+0000"             \* '\0', the sentinel of peek and peek_next
NoChar == "None"            \* Option<char>::None
Panicked == "panic"         \* the value of an expression whose unwrap failed

Utf8Len(c) == IF c = EAcute THEN 2 ELSE 1

IS_DIGIT(c) == c \in {"0", "1", "2", "3", "4", "5", "6", "7", "8", "9"}

IS_ALPHA(c) ==
    \/ c \in {"a", "b", "c", "d", "e", "f", "g", "h", "i", "j", "k", "l", "m",
              "n", "o", "p", "q", "r", "s", "t", "u", "v", "w", "x", "y", "z"}
    \/ c \in {"A", "B", "C", "D", "E", "F", "G", "H", "I", "J", "K", "L", "M",
              "N", "O", "P", "Q", "R", "S", "T", "U", "V", "W", "X", "Y", "Z"}
    \/ c = "_"

IS_ALPHANUMERIC(c) == IS_ALPHA(c) \/ IS_DIGIT(c)

----------------------------------------------------------------------------
(* String: byte length, character access, byte slices *)

\* Let(v, LAMBDA x : e) is e with x standing for v, and v evaluated once
Only(S) == CHOOSE x \in S : TRUE
Let(v, F(_)) == Only({F(x) : x \in {v}})

\* s.len(): the sum of Utf8Len over the characters, each 1 or 2
ByteLen(s) == Len(s) + Cardinality({i \in 1..Len(s) : Utf8Len(s[i]) = 2})

\* s.chars().nth(i)
CharsNth(s, i) == IF i < Len(s) THEN s[i + 1] ELSE NoChar

\* the byte offset at which character number i starts (i = Len(s): the end)
ByteOffset(s, i) == ByteLen(SubSeq(s, 1, i))

IsCharBoundary(s, b) == \E i \in 0..Len(s) : ByteOffset(s, i) = b

CharIndex(s, b) == CHOOSE i \in 0..Len(s) : ByteOffset(s, i) = b

Some(v) == [some |-> TRUE, val |-> v]
None == [some |-> FALSE, val |-> <<>>]

\* s.get(a..b): None unless a <= b <= s.len() and both lie on character
\* boundaries
StrGet(s, a, b) ==
    IF a <= b /\ IsCharBoundary(s, a) /\ IsCharBoundary(s, b)
    THEN Some(SubSeq(s, CharIndex(s, a) + 1, CharIndex(s, b)))
    ELSE None

----------------------------------------------------------------------------
(* Tokens *)

TokenType(tag) == [tag |-> tag, payload |-> <<>>]
TokenString(value) == [tag |-> "String", payload |-> value]
TokenNumber(value) == [tag |-> "Number", payload |-> value]

Token(type, lexeme, ln) == [type |-> type, lexeme |-> lexeme, line |-> ln]

keywords ==
    { << <<"a", "n", "d">>, "And" >>,
      << <<"c", "l", "a", "s", "s">>, "Class" >>,
      << <<"e", "l", "s", "e">>, "Else" >>,
      << <<"f", "a", "l", "s", "e">>, "False" >>,
      << <<"f", "o", "r">>, "For" >>,
      << <<"f", "u", "n">>, "Fun" >>,
      << <<"i", "f">>, "If" >>,
      << <<"n", "i", "l">>, "Nil" >>,
      << <<"o", "r">>, "Or" >>,
      << <<"p", "r", "i", "n", "t">>, "Print" >>,
      << <<"r", "e", "t", "u", "r", "n">>, "Return" >>,
      << <<"s", "u", "p", "e", "r">>, "Super" >>,
      << <<"t", "h", "i", "s">>, "This" >>,
      << <<"t", "r", "u", "e">>, "True" >>,
      << <<"v", "a", "r">>, "Var" >>,
      << <<"w", "h", "i", "l", "e">>, "While" >> }

\* a lookup that also hits when a reserved word is a prefix of the text
keywords_get_prefix(text) ==
    IF \E kv \in keywords : Len(kv[1]) <= Len(text) /\ SubSeq(text, 1, Len(kv[1])) = kv[1]
    THEN Some(TokenType((CHOOSE kv \in keywords :
                Len(kv[1]) <= Len(text) /\ SubSeq(text, 1, Len(kv[1])) = kv[1])[2]))
    ELSE None

\* self.keywords.get(text)
keywords_get(text) ==
    IF \E kv \in keywords : kv[1] = text
    THEN Some(TokenType((CHOOSE kv \in keywords : kv[1] = text)[2]))
    ELSE None

\* str::parse::<f64>.  The text number() hands it is a byte slice of the
\* source, which on multi-byte text need not be the digits the cursor went
\* over.  Of the grammar of f64 the decimal form is modelled, digits with at
\* most one '.', and at least one digit ("1", "1.", ".5", "1.5"); the sign,
\* the exponent and the words inf and nan need characters the texts of this
\* model do not put next to a multi-byte character.  The value <<n, d>>
\* stands for n / 10^d, trailing zeros of the fraction dropped ("1.50" and
\* "1.5" parse to the same value).
DigitVal(c) == CHOOSE v \in 0..9 : ToString(v) = c

IsDecimal(text) ==
    /\ \A i \in 1..Len(text) : IS_DIGIT(text[i]) \/ text[i] = "."
    /\ \E i \in 1..Len(text) : IS_DIGIT(text[i])
    /\ Cardinality({i \in 1..Len(text) : text[i] = "."}) <= 1

\* the number the digits of `text` spell, its '.' left out
DigitsValue(text) ==
    LET digits == SelectSeq(text, LAMBDA c : c # ".")
        value[i \in 0..Len(digits)] ==
            IF i = 0 THEN 0 ELSE 10 * value[i - 1] + DigitVal(digits[i])
    IN  value[Len(digits)]

\* the number of digits after the '.', 0 without one
FractionDigits(text) ==
    IF \E i \in 1..Len(text) : text[i] = "."
    THEN Len(text) - (CHOOSE i \in 1..Len(text) : text[i] = ".")
    ELSE 0

RECURSIVE Normalize(_, _)
Normalize(n, d) ==
    IF d > 0 /\ n % 10 = 0 THEN Let(n \div 10, LAMBDA m : Normalize(m, d - 1)) ELSE <<n, d>>

ParseF64(text) ==
    IF IsDecimal(text) THEN Some(Normalize(DigitsValue(text), FractionDigits(text))) ELSE None

----------------------------------------------------------------------------
(* The methods of Lexer.  `self` is                                         *)
(* [source, tokens, start, current, line, status].                          *)

Abort(self) == [self EXCEPT !.status = "panicked"]
Running(self) == self.status = "running"

is_at_end(self) == self.current >= ByteLen(self.source)

\* peek without its test of is_at_end
peek_unguarded(self) ==
    IF CharsNth(self.source, self.current) = NoChar THEN Panicked
    ELSE CharsNth(self.source, self.current)

\* the char under the cursor, NUL at end of input, Panicked when the unwrap
\* of chars().nth(current) fails
peek(self) ==
    IF is_at_end(self) THEN NUL
    ELSE IF CharsNth(self.source, self.current) = NoChar THEN Panicked
    ELSE CharsNth(self.source, self.current)

peek_next(self) ==
    LET next == self.current + 1 IN
    IF next >= ByteLen(self.source) THEN NUL
    ELSE IF CharsNth(self.source, next) = NoChar THEN Panicked
    ELSE CharsNth(self.source, next)

\* advance: [self |-> the lexer after the call, get |-> the Option returned]
advance(self) ==
    [self |-> [self EXCEPT !.current = @ + 1],
     get |-> CharsNth(self.source, self.current)]

\* add_token taking only the character before the cursor as the lexeme
add_token_last_char(self, token) ==
    Let(StrGet(self.source, self.current - 1, self.current), LAMBDA text :
        IF ~text.some THEN Abort(self)
        ELSE [self EXCEPT !.tokens = Append(@, Token(token, text.val, self.line))])

add_token(self, token) ==
    Let(StrGet(self.source, self.start, self.current), LAMBDA text :
        IF ~text.some THEN Abort(self)
        ELSE [self EXCEPT !.tokens = Append(@, Token(token, text.val, self.line))])

----------------------------------------------------------------------------
(* One or two character operators, comments *)

\* match_lexeme with the lookahead consumed also when it does not match
match_lexeme_consuming(self, expected, then, otherwise) ==
    IF is_at_end(self) THEN add_token(self, otherwise)
    ELSE IF CharsNth(self.source, self.current) = NoChar THEN Abort(self)
    ELSE IF CharsNth(self.source, self.current) # expected
    THEN add_token([self EXCEPT !.current = @ + 1], otherwise)
    ELSE add_token([self EXCEPT !.current = @ + 1], then)

\* match_lexeme!(self, expected, then, otherwise)
match_lexeme(self, expected, then, otherwise) ==
    IF is_at_end(self) THEN add_token(self, otherwise)
    ELSE IF CharsNth(self.source, self.current) = NoChar THEN Abort(self)
    ELSE IF CharsNth(self.source, self.current) # expected THEN add_token(self, otherwise)
    ELSE add_token([self EXCEPT !.current = @ + 1], then)

\* match_lexeme_peek!(self, expected): "true", "false" or Panicked
match_lexeme_peek(self, expected) ==
    IF is_at_end(self) THEN "false"
    ELSE IF CharsNth(self.source, self.current) = NoChar THEN Panicked
    ELSE IF CharsNth(self.source, self.current) # expected THEN "false"
    ELSE "true"

\* the condition of the comment loop with `||` for `&&`
comment_loop_condition_or(self) == peek(self) # "\n" \/ is_at_end(self)

\* the condition of the comment loop, `self.peek() != '\n' && self.is_at_end()`
comment_loop_condition(self) == peek(self) # "\n" /\ is_at_end(self)

\* while comment_loop_condition { self.advance(); }
\* When the condition holds at end of input it holds for ever: peek keeps
\* returning NUL and advance only moves the cursor further; the loop then
\* never ends, which status "diverged" records.
RECURSIVE comment_loop(_)
comment_loop(self) ==
    IF peek(self) = Panicked THEN Abort(self)
    ELSE IF ~comment_loop_condition(self) THEN self
    ELSE IF is_at_end(self) THEN [self EXCEPT !.status = "diverged"]
    ELSE Let(advance(self).self, LAMBDA next : comment_loop(next))

\* the arm '/' of scan_token
slash(self) ==
    Let(match_lexeme_peek(self, "/"), LAMBDA m :
        IF m = Panicked THEN Abort(self)
        ELSE IF m = "true" THEN comment_loop(self)
        ELSE add_token(self, TokenType("Slash")))

----------------------------------------------------------------------------
(* identifier, number, string *)

RECURSIVE identifier_loop(_)
identifier_loop(self) ==
    IF peek(self) = Panicked THEN Abort(self)
    ELSE IF IS_ALPHANUMERIC(peek(self))
    THEN Let(advance(self).self, LAMBDA next : identifier_loop(next))
    ELSE self

identifier(self) ==
    Let(identifier_loop(self), LAMBDA s1 :
    Let(StrGet(s1.source, s1.start, s1.current), LAMBDA text :
        IF ~Running(s1) THEN s1
        ELSE IF ~text.some THEN Abort(s1)
        ELSE IF keywords_get(text.val).some
             THEN add_token(s1, keywords_get(text.val).val)
             ELSE add_token(s1, TokenType("Identifier"))))

RECURSIVE digits_loop(_)
digits_loop(self) ==
    IF peek(self) = Panicked THEN Abort(self)
    ELSE IF IS_DIGIT(peek(self))
    THEN Let(advance(self).self, LAMBDA next : digits_loop(next))
    ELSE self

\* the test of number() for a fraction without the look at peek_next
fraction_follows_no_lookahead(self) ==
    IF peek(self) = Panicked THEN Panicked
    ELSE IF peek(self) # "." THEN "false"
    ELSE "true"

\* `self.peek() == '.' && IS_DIGIT!(&self.peek_next())`: "true", "false" or
\* Panicked
fraction_follows(self) ==
    IF peek(self) = Panicked THEN Panicked
    ELSE IF peek(self) # "." THEN "false"
    ELSE IF peek_next(self) = Panicked THEN Panicked
    ELSE IF IS_DIGIT(peek_next(self)) THEN "true"
    ELSE "false"

\* the part of number() after its first loop
number_fraction(s1) ==
    Let(fraction_follows(s1), LAMBDA f :
        IF f = Panicked THEN Abort(s1)
        ELSE IF f = "true" THEN Let(advance(s1).self, LAMBDA next : digits_loop(next))
        ELSE s1)

number(self) ==
    Let(digits_loop(self), LAMBDA s1 :
    IF ~Running(s1) THEN s1 ELSE
    Let(number_fraction(s1), LAMBDA s2 :
    IF ~Running(s2) THEN s2 ELSE
    Let(StrGet(s2.source, s2.start, s2.current), LAMBDA text :
        IF ~text.some THEN Abort(s2)
        ELSE IF ~ParseF64(text.val).some THEN Abort(s2)
        ELSE add_token(s2, TokenNumber(ParseF64(text.val).val)))))

\* the loop of string() without the count of newlines
RECURSIVE string_loop_no_newline(_)
string_loop_no_newline(self) ==
    IF peek(self) = Panicked THEN Abort(self)
    ELSE IF peek(self) # "\"" /\ ~is_at_end(self)
    THEN Let(advance(self).self, LAMBDA next : string_loop_no_newline(next))
    ELSE self

\* the loop of string() with a backslash protecting the character after it
RECURSIVE string_loop_escape(_)
string_loop_escape(self) ==
    IF peek(self) = Panicked THEN Abort(self)
    ELSE IF peek(self) # "\"" /\ ~is_at_end(self)
    THEN Let(advance(IF peek(self) = "\n" THEN [self EXCEPT !.line = @ + 1] ELSE self).self,
             LAMBDA next :
                 IF peek(self) = "\\" /\ ~is_at_end(next)
                 THEN Let(advance(next).self, LAMBDA after : string_loop_escape(after))
                 ELSE string_loop_escape(next))
    ELSE self

RECURSIVE string_loop(_)
string_loop(self) ==
    IF peek(self) = Panicked THEN Abort(self)
    ELSE IF peek(self) # "\"" /\ ~is_at_end(self)
    THEN Let(advance(IF peek(self) = "\n" THEN [self EXCEPT !.line = @ + 1] ELSE self).self,
             LAMBDA next : string_loop(next))
    ELSE self

\* string() emitting a String token for an unterminated literal as well as
\* returning the error
string_unterminated_token(self) ==
    Let(string_loop(self), LAMBDA s1 :
    IF ~Running(s1) THEN [self |-> s1, res |-> "Ok"]
    ELSE IF is_at_end(s1)
    THEN [self |-> add_token(s1, TokenString(<<>>)), res |-> "Unterminated string"]
    ELSE
    Let(advance(s1).self, LAMBDA s2 :
    Let(StrGet(s2.source, s2.start + 1, s2.current - 1), LAMBDA value :
        IF ~value.some THEN [self |-> Abort(s2), res |-> "Ok"]
        ELSE [self |-> add_token(s2, TokenString(value.val)), res |-> "Ok"])))

\* string: [self |-> the lexer after the call, res |-> "Ok" or the Err message]
string(self) ==
    Let(string_loop(self), LAMBDA s1 :
    IF ~Running(s1) THEN [self |-> s1, res |-> "Ok"]
    ELSE IF is_at_end(s1) THEN [self |-> s1, res |-> "Unterminated string"]
    ELSE
    Let(advance(s1).self, LAMBDA s2 :
    Let(StrGet(s2.source, s2.start + 1, s2.current - 1), LAMBDA value :
        IF ~value.some THEN [self |-> Abort(s2), res |-> "Ok"]
        ELSE [self |-> add_token(s2, TokenString(value.val)), res |-> "Ok"])))

----------------------------------------------------------------------------
(* scan_token *)

SingleCharTokens ==
    { <<"(", "LeftParen">>, <<")", "RightParen">>, <<"{", "LeftBrace">>,
      <<"}", "RightBrace">>, <<",", "Comma">>, <<".", "Dot">>, <<"-", "Minus">>,
      <<"+", "Plus">>, <<";", "Semicolon">>, <<"*", "Star">> }

\* c -> <<the token when '=' follows, the token otherwise>>
OperatorTokens ==
    { <<"!", "BangEqual", "Bang">>, <<"=", "EqualEqual", "Equal">>,
      <<"<", "LessEqual", "Less">>, <<">", "GreaterEqual", "Greater">> }

Ok == [ok |-> TRUE, err |-> <<>>]
Err(e) == [ok |-> FALSE, err |-> e]

\* the match of scan_token on the character c that advance returned:
\* [self |-> the lexer after the arm, res |-> "Ok" or the Err message]
scan_token_match(self, c) ==
    IF \E p \in SingleCharTokens : p[1] = c
    THEN [self |-> add_token(self, TokenType((CHOOSE p \in SingleCharTokens : p[1] = c)[2])),
          res |-> "Ok"]
    ELSE IF \E p \in OperatorTokens : p[1] = c
    THEN LET p == CHOOSE q \in OperatorTokens : q[1] = c
         IN  [self |-> match_lexeme(self, "=", TokenType(p[2]), TokenType(p[3])),
              res |-> "Ok"]
    ELSE IF c = "/" THEN [self |-> slash(self), res |-> "Ok"]
    ELSE IF c \in {" ", "\r", "\t"} THEN [self |-> self, res |-> "Ok"]
    ELSE IF c = "\n" THEN [self |-> [self EXCEPT !.line = @ + 1], res |-> "Ok"]
    ELSE IF c = "\"" THEN string(self)
    ELSE IF IS_DIGIT(c) THEN [self |-> number(self), res |-> "Ok"]
    ELSE IF IS_ALPHA(c) THEN [self |-> identifier(self), res |-> "Ok"]
    ELSE [self |-> self, res |-> "Unexpected character"]

\* scan_token: [self |-> the lexer after the call, ret |-> Ok or Err(<<line, message>>)]
scan_token(self) ==
    Let(advance(self), LAMBDA a :
    IF a.get = NoChar THEN [self |-> Abort(a.self), ret |-> Ok]
    ELSE
    Let(scan_token_match(a.self, a.get), LAMBDA m :
        IF m.res # "Ok" THEN [self |-> m.self, ret |-> Err(<<m.self.line, m.res>>)]
        ELSE [self |-> m.self, ret |-> Ok]))

----------------------------------------------------------------------------
(* scan_tokens *)

Lexer == [source |-> source, tokens |-> tokens, start |-> start,
          current |-> current, line |-> line, status |-> "running"]

\* an iteration that does not move start to the cursor before scan_token
ScanToken_keep_start ==
    /\ pc = "scan"
    /\ ~is_at_end(Lexer)
    /\ \E r \in {scan_token(Lexer)} :
           /\ tokens' = r.self.tokens
           /\ start' = r.self.start
           /\ current' = r.self.current
           /\ line' = r.self.line
           /\ pc' = IF Running(r.self) THEN "scan" ELSE r.self.status
           /\ IF Running(r.self) /\ ~r.ret.ok
              THEN errors' = Append(errors, r.ret.err) /\ had_error' = TRUE
              ELSE UNCHANGED <<errors, had_error>>
    /\ UNCHANGED <<source, result, lox_had_error, reported, exit_code>>

\* one iteration of `while !self.is_at_end()`
ScanToken ==
    /\ pc = "scan"
    /\ ~is_at_end(Lexer)
    /\ \E r \in {Let([Lexer EXCEPT !.start = current], LAMBDA self : scan_token(self))} :
           /\ tokens' = r.self.tokens
           /\ start' = r.self.start
           /\ current' = r.self.current
           /\ line' = r.self.line
           /\ pc' = IF Running(r.self) THEN "scan" ELSE r.self.status
           /\ IF Running(r.self) /\ ~r.ret.ok
              THEN errors' = Append(errors, r.ret.err) /\ had_error' = TRUE
              ELSE UNCHANGED <<errors, had_error>>
    /\ UNCHANGED <<source, result, lox_had_error, reported, exit_code>>

\* the loop has ended: return Err(errors) or push Eof and return Ok(())
Return ==
    /\ pc = "scan"
    /\ is_at_end(Lexer)
    /\ pc' = "returned"
    /\ IF had_error
       THEN result' = "Err" /\ UNCHANGED tokens
       ELSE /\ tokens' = Append(tokens, Token(TokenType("Eof"), <<>>, line))
            /\ result' = "Ok"
    /\ UNCHANGED <<source, start, current, line, errors, had_error>>
    /\ UNCHANGED <<lox_had_error, reported, exit_code>>

----------------------------------------------------------------------------
(* Lox: file mode *)

\* Lox::default()
Default ==
    /\ lox_had_error = FALSE
    /\ reported = 0
    /\ exit_code = None

\* Lox::run, the arm Err(errs): self.error(line, &message) for the next of
\* the returned errors; error calls report, which prints it and sets the flag
Report ==
    /\ pc = "returned"
    /\ result = "Err"
    /\ ~exit_code.some
    /\ reported < Len(errors)
    /\ reported' = reported + 1
    /\ lox_had_error' = TRUE
    /\ UNCHANGED <<source, tokens, start, current, line, errors, had_error, pc,
                   result, exit_code>>

\* run_file exiting with 65 whatever Lox.had_error says, when scan_tokens
\* returned Err
RunFile_on_err ==
    /\ pc = "returned"
    /\ ~exit_code.some
    /\ result = "Ok" \/ reported = Len(errors)
    /\ exit_code' = IF result = "Err" THEN Some(65) ELSE Some(0)
    /\ UNCHANGED <<source, tokens, start, current, line, errors, had_error, pc,
                   result, lox_had_error, reported>>

\* Lox::run_file once run has returned: exit(65) when had_error is set;
\* otherwise main returns Ok(()) and the process exits with 0
RunFile ==
    /\ pc = "returned"
    /\ ~exit_code.some
    /\ result = "Ok" \/ reported = Len(errors)
    /\ exit_code' = IF lox_had_error THEN Some(65) ELSE Some(0)
    /\ UNCHANGED <<source, tokens, start, current, line, errors, had_error, pc,
                   result, lox_had_error, reported>>

----------------------------------------------------------------------------
(* Source texts and specifications *)

MaxLen == 3

\* one or more characters of every class scan_token tells apart
AsciiAlphabet ==
    {" ", "\n", "/", ".", "!", "=", "<", ">", "\"", "1", "2", "o", "r", "@", "\\"}

\* one character of every class, and one of two bytes
Utf8Alphabet == {" ", "\n", "/", ".", "!", "=", "\"", "1", "o", "@", EAcute}

Texts(alphabet, n) == UNION {[1..k -> alphabet] : k \in 0..n}

\* longer texts: the examples of the specification, and named cases
ExampleSources ==
    { <<"1", ".", "5", ".", "2">>,
      <<"/", "/", " ", "c", "o", "m", "m", "e", "n", "t", "\n", "1", "2", "3">>,
      <<"\"", "a", "b", "c">>,
      <<"a", "n", "d">>,
      <<"a", "n", "d", "x">>,
      <<"w", "h", "i", "l", "e">>,
      <<"@", "1", "2", "3">>,
      <<"\"", "a", "\n", "b", "\"", "(", ")">>,
      <<"o", "r", " ", "o", "r", "1">> }

AsciiSources == Texts(AsciiAlphabet, MaxLen) \cup ExampleSources

Utf8Sources == Texts(Utf8Alphabet, MaxLen) \cup ExampleSources

\* Lexer::new(text), and the locals of scan_tokens before its loop
New(text) ==
    /\ source = text
    /\ tokens = <<>>
    /\ start = 0
    /\ current = 0
    /\ line = 1
    /\ errors = <<>>
    /\ had_error = TRUE
    /\ pc = "scan"
    /\ result = "none"

\* a Lox and its lexer for a file of single-byte text
Init == \E text \in AsciiSources : Default /\ New(text)

\* a Lox and its lexer for a file that may hold characters of more than one
\* byte
InitUtf8 == \E text \in Utf8Sources : Default /\ New(text)

Next == ScanToken \/ Return \/ Report \/ RunFile

Spec == Init /\ [][Next]_vars

SpecUtf8 == InitUtf8 /\ [][Next]_vars

\* scan_tokens is a sequential loop: while a step is possible, it is taken
FairSpecUtf8 == InitUtf8 /\ [][Next]_vars /\ WF_vars(Next)

----------------------------------------------------------------------------
(* Vocabulary of the properties *)

AtEnd == is_at_end(Lexer)

\* the character a main-loop iteration starts at (NoChar at end of input)
Cur == CharsNth(source, current)

\* the character after it
Nxt == CharsNth(source, current + 1)

TokenTags == [i \in 1..Len(tokens) |-> tokens[i].type.tag]

IsEof(tok) == tok.type.tag = "Eof"

\* the number of '\n' among the characters number a+1 .. b of the source
Newlines(a, b) == Cardinality({i \in (a + 1)..b : source[i] = "\n"})

\* the least j >= i such that character j+1 of the source is not in the set
\* `class`, or j is the end of the source: the end of the maximal run
RunEnd(i, class(_)) ==
    CHOOSE j \in i..Len(source) :
        /\ \A k \in (i + 1)..j : class(source[k])
        /\ j = Len(source) \/ ~class(source[j + 1])

----------------------------------------------------------------------------
(* C1 *)

\* C1: when scan_tokens returns, the token list is non-empty, its last
\* element is an Eof token and Eof occurs exactly once, errors or not.
C1_EofLastExactlyOnce ==
    pc = "returned" =>
        /\ tokens # <<>>
        /\ IsEof(tokens[Len(tokens)])
        /\ Cardinality({i \in 1..Len(tokens) : IsEof(tokens[i])}) = 1

----------------------------------------------------------------------------
(* C3 *)

\* C3: scan_tokens never aborts, whatever the source text, multi-byte
\* characters included: no unwrap of advance, scan_token, add_token, string,
\* number or identifier fails.
C3_NeverAborts == pc # "panicked"

----------------------------------------------------------------------------
(* C4 *)

\* C4: scan_tokens returns Ok if and only if the error list is empty, and
\* Err if and only if at least one error was recorded.
C4_OkIffNoErrors ==
    pc = "returned" =>
        /\ result = "Ok" <=> errors = <<>>
        /\ result = "Err" <=> errors # <<>>

----------------------------------------------------------------------------
(* C5 *)

\* the text from character i+1 on is made only of whitespace and `//` line
\* comments
RECURSIVE OnlyBlank(_, _)
OnlyBlank(s, i) ==
    IF i >= Len(s) THEN TRUE
    ELSE IF s[i + 1] \in {" ", "\r", "\t", "\n"} THEN OnlyBlank(s, i + 1)
    ELSE IF s[i + 1] = "/" /\ i + 2 <= Len(s) /\ s[i + 2] = "/"
    THEN LET ends == {j \in (i + 2)..Len(s) : j = Len(s) \/ s[j + 1] = "\n"}
         IN  OnlyBlank(s, CHOOSE j \in ends : \A k \in ends : j <= k)
    ELSE FALSE

\* C5: for a source made only of whitespace and `//` comments, scan_tokens
\* yields exactly [Eof] and an empty error list.
C5_BlankSourceGivesEof ==
    pc = "returned" /\ OnlyBlank(source, 0) =>
        /\ Len(tokens) = 1
        /\ IsEof(tokens[1])
        /\ errors = <<>>

----------------------------------------------------------------------------
(* C6 *)

\* where a comment that starts at character i+1 ends: at the next '\n',
\* which is not part of it, or at the end of the source
CommentEnd(i) ==
    LET ends == {j \in i..Len(source) : j = Len(source) \/ source[j + 1] = "\n"}
    IN  CHOOSE j \in ends : \A k \in ends : j <= k

\* C6: when scan_token reads `/` and the next character is `/`, everything
\* up to but excluding the next '\n' (or the end of input) is consumed with
\* no token and no error; when the next character is not `/`, exactly one
\* Slash token is emitted.
C6_CommentOrSlash ==
    [][pc = "scan" /\ ~AtEnd /\ Cur = "/" =>
        IF Nxt = "/"
        THEN /\ pc' = "scan"
             /\ tokens' = tokens
             /\ errors' = errors
             /\ line' = line
             /\ current' = CommentEnd(current)
        ELSE /\ pc' = "scan"
             /\ tokens' = Append(tokens, Token(TokenType("Slash"), <<"/">>, line))
             /\ errors' = errors
             /\ current' = current + 1]_vars

----------------------------------------------------------------------------
(* C2 *)

IsSingleByte(s) == \A i \in 1..Len(s) : Utf8Len(s[i]) = 1

Halted == pc \in {"returned", "panicked"}

----------------------------------------------------------------------------
(* C7 *)

C7_TwoChar(c) ==
    CASE c = "!" -> "BangEqual" [] c = "=" -> "EqualEqual"
      [] c = "<" -> "LessEqual" [] c = ">" -> "GreaterEqual"

C7_OneChar(c) ==
    CASE c = "!" -> "Bang" [] c = "=" -> "Equal"
      [] c = "<" -> "Less" [] c = ">" -> "Greater"

\* C7: at `!`, `=`, `<` or `>`, scan_token emits exactly one token: the
\* two-character one, consuming both characters, when `=` follows, and
\* otherwise the one-character one, the cursor staying just after the
\* operator.
C7_OperatorLookahead ==
    [][pc = "scan" /\ ~AtEnd /\ Cur \in {"!", "=", "<", ">"} =>
        /\ pc' = "scan"
        /\ errors' = errors
        /\ IF Nxt = "="
           THEN /\ tokens' = Append(tokens,
                        Token(TokenType(C7_TwoChar(Cur)), <<Cur, "=">>, line))
                /\ current' = current + 2
           ELSE /\ tokens' = Append(tokens,
                        Token(TokenType(C7_OneChar(Cur)), <<Cur>>, line))
                /\ current' = current + 1]_vars

\* `!<=` scanned: Bang, its lookahead `<` left for the next token, LessEqual
C7_Witness ==
    /\ pc = "returned"
    /\ source = <<"!", "<", "=">>
    /\ TokenTags = <<"Bang", "LessEqual">>

----------------------------------------------------------------------------
(* C8 *)

IsDigitChar(c) == IS_DIGIT(c)

\* where the number that starts at character i+1 ends: the digits, and a
\* '.' with the digits after it when a digit follows the '.'
NumberEnd(i) ==
    LET a == RunEnd(i + 1, IsDigitChar)
    IN  IF a + 2 <= Len(source) /\ source[a + 1] = "." /\ IS_DIGIT(source[a + 2])
        THEN RunEnd(a + 2, IsDigitChar)
        ELSE a

\* C8: at a digit, number() consumes the digits, a '.' only when a digit
\* follows it, and the digits after it, and emits one Number token whose
\* lexeme is that text; a '.' the main loop comes to is a Dot token.
C8_NumberMaximalMunch ==
    [][pc = "scan" /\ ~AtEnd =>
        /\ IS_DIGIT(Cur) =>
            /\ pc' = "scan"
            /\ errors' = errors
            /\ current' = NumberEnd(current)
            /\ Len(tokens') = Len(tokens) + 1
            /\ SubSeq(tokens', 1, Len(tokens)) = tokens
            /\ tokens'[Len(tokens')].type.tag = "Number"
            /\ tokens'[Len(tokens')].lexeme = SubSeq(source, current + 1, NumberEnd(current))
        /\ Cur = "." =>
            /\ pc' = "scan"
            /\ tokens' = Append(tokens, Token(TokenType("Dot"), <<".">>, line))
            /\ current' = current + 1]_vars

\* `1.5.2` scanned: Number 1.5, Dot, Number 2
C8_Witness ==
    /\ pc = "returned"
    /\ source = <<"1", ".", "5", ".", "2">>
    /\ TokenTags = <<"Number", "Dot", "Number">>
    /\ tokens[1].lexeme = <<"1", ".", "5">>
    /\ tokens[3].lexeme = <<"2">>

----------------------------------------------------------------------------
(* C9 *)

IsAlnumChar(c) == IS_ALPHANUMERIC(c)

C9_ReservedWords ==
    { << <<"a", "n", "d">>, "And" >>, << <<"c", "l", "a", "s", "s">>, "Class" >>,
      << <<"e", "l", "s", "e">>, "Else" >>, << <<"f", "a", "l", "s", "e">>, "False" >>,
      << <<"f", "u", "n">>, "Fun" >>, << <<"f", "o", "r">>, "For" >>,
      << <<"i", "f">>, "If" >>, << <<"n", "i", "l">>, "Nil" >>,
      << <<"o", "r">>, "Or" >>, << <<"p", "r", "i", "n", "t">>, "Print" >>,
      << <<"r", "e", "t", "u", "r", "n">>, "Return" >>,
      << <<"s", "u", "p", "e", "r">>, "Super" >>, << <<"t", "h", "i", "s">>, "This" >>,
      << <<"t", "r", "u", "e">>, "True" >>, << <<"v", "a", "r">>, "Var" >>,
      << <<"w", "h", "i", "l", "e">>, "While" >> }

C9_Kind(text) ==
    IF \E w \in C9_ReservedWords : w[1] = text
    THEN (CHOOSE w \in C9_ReservedWords : w[1] = text)[2]
    ELSE "Identifier"

\* C9: at a letter or underscore, identifier() consumes the maximal run of
\* letters, digits and underscores and emits exactly one token: the keyword
\* when the whole run is one of the 16 reserved words, Identifier otherwise.
C9_IdentifierOrKeyword ==
    [][pc = "scan" /\ ~AtEnd /\ IS_ALPHA(Cur) =>
        LET e == RunEnd(current + 1, IsAlnumChar)
            text == SubSeq(source, current + 1, e)
        IN  /\ pc' = "scan"
            /\ errors' = errors
            /\ current' = e
            /\ tokens' = Append(tokens, Token(TokenType(C9_Kind(text)), text, line))]_vars

\* `or or1` scanned: the keyword Or, then the identifier or1
C9_Witness ==
    /\ pc = "returned"
    /\ TokenTags = <<"Or", "Identifier">>
    /\ tokens[2].lexeme = <<"o", "r", "1">>

----------------------------------------------------------------------------
(* C10 *)

\* C10: at a `"` with no `"` after it, string() records exactly one
\* `Unterminated string` error, emits no token and leaves the cursor at end
\* of input; the error's line is the opening line plus the number of
\* newlines in the unterminated body.
C10_UnterminatedString ==
    [][/\ pc = "scan" /\ ~AtEnd /\ Cur = "\""
       /\ \A k \in (current + 2)..Len(source) : source[k] # "\""
       => /\ pc' = "scan"
          /\ tokens' = tokens
          /\ errors' = Append(errors,
                <<line + Newlines(current + 1, Len(source)), "Unterminated string">>)
          /\ current' = Len(source)
          /\ current' >= ByteLen(source)]_vars

\* an unterminated string with a newline in its body, opened on line 1: one
\* error, at line 2, and no token
C10_Witness ==
    /\ pc = "returned"
    /\ source # <<>>
    /\ source[1] = "\""
    /\ errors = << <<2, "Unterminated string">> >>
    /\ tokens = <<>>

----------------------------------------------------------------------------
(* C11 *)

\* the characters the arms of scan_token's match name: every other character
\* starts no token
C11_StartsToken(c) ==
    \/ c \in {"(", ")", "{", "}", ",", ".", "-", "+", ";", "*"}
    \/ c \in {"!", "=", "<", ">", "/"}
    \/ c \in {" ", "\r", "\t", "\n", "\""}
    \/ IS_DIGIT(c)
    \/ IS_ALPHA(c)

\* C11: at a character that starts no token, scan_token records exactly one
\* `Unexpected character` error with the current line, emits no token and
\* moves the cursor one character forward; scanning then continues with the
\* text after that character: the main loop goes on exactly when characters
\* remain.
C11_UnexpectedCharacter ==
    [][pc = "scan" /\ ~AtEnd /\ Cur # NoChar /\ ~C11_StartsToken(Cur) =>
        /\ pc' = "scan"
        /\ tokens' = tokens
        /\ errors' = Append(errors, <<line, "Unexpected character">>)
        /\ line' = line
        /\ current' = current + 1
        /\ AtEnd' <=> current' >= Len(source)]_vars

----------------------------------------------------------------------------
(* C12 *)

\* the text of every punctuation and operator token, and the kind it selects
C12_Punctuation ==
    { << <<"(">>, "LeftParen" >>, << <<")">>, "RightParen" >>,
      << <<"{">>, "LeftBrace" >>, << <<"}">>, "RightBrace" >>,
      << <<",">>, "Comma" >>, << <<".">>, "Dot" >>, << <<"-">>, "Minus" >>,
      << <<"+">>, "Plus" >>, << <<";">>, "Semicolon" >>, << <<"*">>, "Star" >>,
      << <<"/">>, "Slash" >>,
      << <<"!">>, "Bang" >>, << <<"!", "=">>, "BangEqual" >>,
      << <<"=">>, "Equal" >>, << <<"=", "=">>, "EqualEqual" >>,
      << <<"<">>, "Less" >>, << <<"<", "=">>, "LessEqual" >>,
      << <<">">>, "Greater" >>, << <<">", "=">>, "GreaterEqual" >> }

C12_Tags == {p[2] : p \in C12_Punctuation}

C12_TwoCharTags == {"BangEqual", "EqualEqual", "LessEqual", "GreaterEqual"}

\* C12: every punctuation or operator token scan_token emits has as its
\* lexeme the source text from the token's start offset to the cursor at
\* emission, of one character, or of two for BangEqual, EqualEqual, LessEqual
\* and GreaterEqual, and that text is the one that selects the token's kind.
C12_LexemeIsSourceText ==
    [][/\ pc = "scan" /\ ~AtEnd
       /\ Len(tokens') > Len(tokens)
       /\ tokens'[Len(tokens')].type.tag \in C12_Tags
       => LET tok == tokens'[Len(tokens')]
          IN  /\ start' = current
              /\ tok.lexeme = SubSeq(source, start' + 1, current')
              /\ Len(tok.lexeme) = IF tok.type.tag \in C12_TwoCharTags THEN 2 ELSE 1
              /\ <<tok.lexeme, tok.type.tag>> \in C12_Punctuation]_vars

\* `>=.` scanned: a two-character operator and a one-character token
C12_Witness ==
    /\ pc = "returned"
    /\ source = <<">", "=", ".">>
    /\ TokenTags = <<"GreaterEqual", "Dot">>
    /\ tokens[1].lexeme = <<">", "=">>
    /\ tokens[2].lexeme = <<".">>

----------------------------------------------------------------------------
(* C14 *)

\* C14: the line a token records is the line in effect where its first
\* character was consumed: 1 plus the number of '\n' before the token's
\* start offset, which is the value of the line counter when the iteration
\* that emits the token begins; a String token that spans several lines
\* records the line of its opening quote.
C14_TokenLineIsStartLine ==
    [][pc = "scan" /\ ~AtEnd /\ Len(tokens') > Len(tokens) =>
        /\ start' = current
        /\ tokens'[Len(tokens')].line = 1 + Newlines(0, start')
        /\ tokens'[Len(tokens')].line = line]_vars

----------------------------------------------------------------------------
(* C15 *)

\* the line counter at a boundary of the main loop: 1 plus the number of
\* '\n' in the consumed prefix
C15_LineOfPrefix ==
    pc \in {"scan", "returned"} => line = 1 + Newlines(0, current)

\* C15: the line counter starts at 1; at every boundary of the main loop it
\* is 1 plus the number of '\n' in source[0..current], however the newlines
\* were consumed; it never decreases; and when scan_tokens returns, the Eof
\* token carries the counter's value at the end of the input.
C15_LineCounter ==
    /\ [](current = 0 => line = 1)
    /\ []C15_LineOfPrefix
    /\ [][line' >= line]_vars
    /\ [](pc = "returned" =>
            /\ tokens # <<>>
            /\ IsEof(tokens[Len(tokens)])
            /\ tokens[Len(tokens)].line = 1 + Newlines(0, Len(source)))

----------------------------------------------------------------------------
(* C16 *)

\* the tokens from number i on lie in the source, one after the other, in
\* the text between offset `from` and the cursor
RECURSIVE C16_Placed(_, _)
C16_Placed(i, from) ==
    IF i > Len(tokens) THEN TRUE
    ELSE IF IsEof(tokens[i]) THEN C16_Placed(i + 1, from)
    ELSE LET n == Len(tokens[i].lexeme)
             at == {p \in from..(current - n) :
                       SubSeq(source, p + 1, p + n) = tokens[i].lexeme}
         IN  /\ n > 0
             /\ at # {}
             /\ C16_Placed(i + 1, n + CHOOSE p \in at : \A q \in at : p <= q)

\* C16: the token list only grows at its end; the cursor never moves back;
\* a token that is emitted spans the text from the cursor at the start of
\* its iteration (not before the end of any earlier token) to the new
\* cursor, and is not empty: the spans of consecutive tokens are disjoint
\* and increasing, and the tokens lie in the source in the order of the list.
C16_AppendOnlyInOrder ==
    /\ [][/\ Len(tokens') >= Len(tokens)
          /\ SubSeq(tokens', 1, Len(tokens)) = tokens
          /\ current' >= current]_vars
    /\ [][pc = "scan" /\ ~AtEnd /\ Len(tokens') > Len(tokens) =>
            /\ Len(tokens') = Len(tokens) + 1
            /\ start' = current
            /\ current' > start'
            /\ tokens'[Len(tokens')].lexeme = SubSeq(source, start' + 1, current')]_vars
    /\ [](pc \in {"scan", "returned"} => C16_Placed(1, 0))

\* `1 2` scanned: two tokens with a gap between their spans
C16_Witness ==
    /\ pc = "returned"
    /\ source = <<"1", " ", "2">>
    /\ TokenTags = <<"Number", "Number">>
    /\ tokens[1].lexeme = <<"1">>
    /\ tokens[2].lexeme = <<"2">>

----------------------------------------------------------------------------
(* C17 *)

\* the closing quote of the literal whose opening quote is character i+1:
\* the number of the first `"` after it
C17_ClosingQuote(i) ==
    LET quotes == {k \in (i + 2)..Len(source) : source[k] = "\""}
    IN  CHOOSE k \in quotes : \A j \in quotes : k <= j

\* C17: at a `"` that a later `"` closes, string() emits exactly one String
\* token and no error; the payload is the text strictly between the opening
\* quote and the first `"` after it, verbatim (a backslash is an ordinary
\* character, newlines are kept), the lexeme is that text with both quotes,
\* and the cursor ends just after the closing quote.
C17_TerminatedString ==
    [][/\ pc = "scan" /\ ~AtEnd /\ Cur = "\""
       /\ \E k \in (current + 2)..Len(source) : source[k] = "\""
       => LET q == C17_ClosingQuote(current)
              tok == tokens'[Len(tokens')]
          IN  /\ pc' = "scan"
              /\ errors' = errors
              /\ current' = q
              /\ Len(tokens') = Len(tokens) + 1
              /\ SubSeq(tokens', 1, Len(tokens)) = tokens
              /\ tok.type = TokenString(SubSeq(source, current + 2, q - 1))
              /\ tok.lexeme = SubSeq(source, current + 1, q)]_vars

\* `"\"` scanned: the backslash is the whole payload and the quote after it
\* closes the literal
C17_Witness ==
    /\ pc = "returned"
    /\ source = <<"\"", "\\", "\"">>
    /\ Len(tokens) = 1
    /\ tokens[1].type = TokenString(<<"\\">>)
    /\ tokens[1].lexeme = source
    /\ errors = <<>>

----------------------------------------------------------------------------
(* C18 *)

\* C18: in file mode the process exits with code 65 if and only if the scan
\* recorded at least one lexical error (with 0 otherwise); Lox.had_error is
\* set only by report, once for each error scan_tokens returned, and is
\* false after run when the error list is empty.
C18_ExitCode ==
    /\ [](exit_code.some => (exit_code.val = 65 <=> errors # <<>>))
    /\ [](exit_code.some => exit_code.val \in {0, 65})
    /\ [][lox_had_error' # lox_had_error =>
            /\ lox_had_error'
            /\ pc = "returned"
            /\ reported' = reported + 1
            /\ reported' <= Len(errors)]_vars
    /\ [](reported <= Len(errors) /\ (reported > 0 => lox_had_error))
    /\ [](pc = "returned" /\ errors = <<>> => ~lox_had_error)
    /\ [](exit_code.some => pc = "returned" /\ reported = Len(errors))

\* `@@` scanned by run_file: two errors returned and reported, exit code 65
C18_Witness ==
    /\ source = <<"@", "@">>
    /\ pc = "returned"
    /\ Len(errors) = 2
    /\ reported = 2
    /\ lox_had_error
    /\ exit_code = Some(65)

\* a file without lexical error: nothing reported, exit code 0
C18_WitnessNoError ==
    /\ source = <<"1", ".", "2">>
    /\ pc = "returned"
    /\ errors = <<>>
    /\ ~lox_had_error
    /\ exit_code = Some(0)

----------------------------------------------------------------------------
(* C19 *)

\* C19: one iteration of the main loop appends at most one token and at most
\* one error, and never both, and changes neither list otherwise; an
\* iteration at a blank or a newline changes neither list.
C19_OneEffectPerIteration ==
    [][pc = "scan" /\ ~AtEnd =>
        LET dt == Len(tokens') - Len(tokens)
            de == Len(errors') - Len(errors)
        IN  /\ dt \in {0, 1}
            /\ de \in {0, 1}
            /\ dt + de <= 1
            /\ SubSeq(tokens', 1, Len(tokens)) = tokens
            /\ SubSeq(errors', 1, Len(errors)) = errors
            /\ Cur \in {" ", "\r", "\t", "\n"} =>
                   tokens' = tokens /\ errors' = errors]_vars

\* `1 @` scanned: an iteration that appended a token, one that appended
\* nothing and one that appended an error
C19_Witness ==
    /\ pc = "returned"
    /\ source = <<"1", " ", "@">>
    /\ TokenTags = <<"Number">>
    /\ errors = << <<1, "Unexpected character">> >>

----------------------------------------------------------------------------
(* C20 *)

\* C20: over single-byte text, 0 <= start <= current <= the length of the
\* source at every point of the scan (advance is never called at the end of
\* input, which would move the cursor past it); no read of peek, peek_next,
\* advance or a slice fails; at the end of input peek and peek_next return
\* NUL; and the slice start+1..current-1 that string() takes for a terminated
\* literal is a valid range.
C20_CursorInBounds ==
    /\ [](0 <= start /\ start <= current /\ current <= Len(source))
    /\ [](pc # "panicked")
    /\ [](current >= Len(source) => peek(Lexer) = NUL)
    /\ [](current + 1 >= Len(source) => peek_next(Lexer) = NUL)
    /\ [](current < Len(source) => peek(Lexer) = source[current + 1])
    /\ [][pc = "scan" /\ ~AtEnd /\ Cur = "\"" /\ Len(tokens') > Len(tokens) =>
            /\ start' + 1 <= current' - 1
            /\ current' - 1 < Len(source)
            /\ StrGet(source, start' + 1, current' - 1).some]_vars

\* `""1` scanned: the empty literal, whose slice is the empty range 1..1,
\* then a number whose loop peeks at the end of input
C20_Witness ==
    /\ pc = "returned"
    /\ source = <<"\"", "\"", "1">>
    /\ TokenTags = <<"String", "Number">>
    /\ tokens[1].type = TokenString(<<>>)
    /\ start = 2
    /\ current = Len(source)

====
